---- MODULE Spec2Model ----
(***************************************************************************)
(* Model of pyblock.editor.Editor: the edit-buffering and commit engine.   *)
(* One Editor session (self) works on a world stored on disk; a second     *)
(* world is available as the source of cross-world copies.                 *)
(*                                                                         *)
(* Python dicts that the code iterates (blocks_map, chunks, entities, the  *)
(* local dicts of done) are ordered dicts: sequences of [k, v] entries in  *)
(* insertion order.  Dicts that are only looked up (sections,              *)
(* write_sections) are functions.                                          *)
(***************************************************************************)
EXTENDS Integers, Sequences, FiniteSets, TLC

VARIABLES
    blocks_map,      \* self.blocks_map: section_id -> list of (block, block_index)
    sections,        \* self.sections: section_id -> Section (read cache)
    chunks,          \* self.chunks: chunk_id -> Chunk (read cache)
    write_sections,  \* self.write_sections: section_id -> Section (write cache)
    entities,        \* self.entities: chunk_id -> list of block entities
    disk,            \* the region files of the session's world: chunk_id -> Chunk
    writes,          \* the Region.write calls made by the last operation, in order
    hist,            \* the operations called so far: [op, arg, ret]
    source_world,    \* the Editor(world_source) of the last cross-world copy
    calls            \* the get_block, get_section and read_chunk calls so far

vars == <<blocks_map, sections, chunks, write_sections, entities, disk, writes, hist,
          source_world, calls>>

---------------------------------------------------------------------------
(* Bounds of the model.  The world is the box                              *)
(*   x in -WorldX .. WorldX-1, y in 0 .. WorldY-1, z in 0 .. WorldZ-1      *)
(* and the extents of a region, a chunk and a section are scaled down.     *)

WorldX == 4
WorldY == 4
WorldZ == 2
RegionExtent == 4
ChunkExtent == 2
SectionHeight == 2
MaxOps == 3

World == (-WorldX .. WorldX - 1) \X (0 .. WorldY - 1) \X (0 .. WorldZ - 1)

---------------------------------------------------------------------------
(* Ordered dicts.                                                          *)

Keys(d) == {d[i].k : i \in DOMAIN d}

Has(d, key) == key \in Keys(d)

Get(d, key) == d[CHOOSE i \in DOMAIN d : d[i].k = key].v

Put(d, key, val) ==
    IF Has(d, key)
    THEN [i \in DOMAIN d |-> IF d[i].k = key THEN [k |-> key, v |-> val] ELSE d[i]]
    ELSE Append(d, [k |-> key, v |-> val])

\* d[key].append(item) on a dict of lists, creating the list when missing
AppendTo(d, key, item) ==
    IF Has(d, key) THEN Put(d, key, Append(Get(d, key), item))
    ELSE Put(d, key, <<item>>)

---------------------------------------------------------------------------
(* Coordinate indexer: tools.block_to_id_index.                            *)

block_to_id_index(x, y, z) ==
    << <<x \div RegionExtent, z \div RegionExtent>>,
       <<(x % RegionExtent) \div ChunkExtent, (z % RegionExtent) \div ChunkExtent>>,
       y \div SectionHeight,
       (y % SectionHeight) * ChunkExtent * ChunkExtent
           + (z % ChunkExtent) * ChunkExtent + (x % ChunkExtent) >>

SectionIdOf(p) ==
    LET a == block_to_id_index(p[1], p[2], p[3]) IN <<a[1], a[2], a[3]>>

IndexOf(p) == block_to_id_index(p[1], p[2], p[3])[4]

ChunkIdOf(p) ==
    LET a == block_to_id_index(p[1], p[2], p[3]) IN <<a[1], a[2]>>

---------------------------------------------------------------------------
(* The stored worlds.  Every block of a world holds a value of its own.    *)

StoredBlock(base, p) ==
    base + (p[1] + WorldX) + 2 * WorldX * (p[3] + WorldZ * p[2])

WorldChunkIds == {ChunkIdOf(p) : p \in World}

StoredSection(base, sid) ==
    LET ps == {p \in World : SectionIdOf(p) = sid}
    IN [i \in {IndexOf(p) : p \in ps} |->
           StoredBlock(base, CHOOSE p \in ps : IndexOf(p) = i)]

\* the block entities a world stores, each in the chunk that holds its position
SelfEntities ==
    << [id |-> "chest", x |-> 0, y |-> 0, z |-> 0],
       [id |-> "sign", x |-> 1, y |-> 1, z |-> 0] >>

OtherEntities == << [id |-> "hopper", x |-> 0, y |-> 0, z |-> 0] >>

StoredChunk(base, ents, cid) ==
    [sections |->
         [yl \in {SectionIdOf(p)[3] : p \in {q \in World : ChunkIdOf(q) = cid}} |->
              StoredSection(base, <<cid[1], cid[2], yl>>)],
     block_entities |->
         SelectSeq(ents, LAMBDA e : ChunkIdOf(<<e.x, e.y, e.z>>) = cid)]

InitDisk == [cid \in WorldChunkIds |-> StoredChunk(100, SelfEntities, cid)]

OtherDisk == [cid \in WorldChunkIds |-> StoredChunk(200, OtherEntities, cid)]

\* the value a world stores at position p
BlockAt(dk, p) == dk[ChunkIdOf(p)].sections[SectionIdOf(p)[3]][IndexOf(p)]

---------------------------------------------------------------------------
(* Collaborators: Region, Chunk, Section.                                  *)

\* Region(path, region_coord).read_chunk(chunk_coord): decode from disk
read_chunk(dk, chunk_id) == dk[chunk_id]

\* Chunk.get_section(ylevel): a Section of its own, decoded from the chunk
chunk_get_section(chunk, ylevel) == chunk.sections[ylevel]

\* Section.get_block(block_index)
section_get_block(section, block_index) == section[block_index]

\* Section.set_block(block, block_index)
section_set_block(section, block, block_index) ==
    [section EXCEPT ![block_index] = block]

---------------------------------------------------------------------------
(* Editor.set_block: the new blocks_map.                                   *)

\* a faulty set_block: the new change goes to the front of the section's list
set_block_prepend(bm, block, x, y, z) ==
    LET a == block_to_id_index(x, y, z)
        section_id == <<a[1], a[2], a[3]>>
        change == <<block, a[4]>>
    IN IF Has(bm, section_id)
       THEN Put(bm, section_id, <<change>> \o Get(bm, section_id))
       ELSE Put(bm, section_id, <<change>>)

set_block(bm, block, x, y, z) ==
    LET a == block_to_id_index(x, y, z)
        section_id == <<a[1], a[2], a[3]>>
        change == <<block, a[4]>>
    IN IF Has(bm, section_id)
       THEN Put(bm, section_id, Append(Get(bm, section_id), change))
       ELSE Put(bm, section_id, <<change>>)

(* Editor.get_section on an editor whose chunk cache is chs and whose      *)
(* world is dk: the chunk cache after the call and the section returned.   *)

\* a faulty get_section that does not look into the chunk cache
get_section_uncached(chs, dk, section_id) ==
    LET chunk_id == <<section_id[1], section_id[2]>>
        chs2 == Put(chs, chunk_id, read_chunk(dk, chunk_id))
    IN [chunks |-> chs2,
        section |-> chunk_get_section(Get(chs2, chunk_id), section_id[3]),
        calls |-> <<[fn |-> "read_chunk", at |-> chunk_id, from |-> "get_section"]>>]

get_section(chs, dk, section_id) ==
    LET chunk_id == <<section_id[1], section_id[2]>>
        chs2 == IF Has(chs, chunk_id) THEN chs
                ELSE Put(chs, chunk_id, read_chunk(dk, chunk_id))
    IN [chunks |-> chs2,
        section |-> chunk_get_section(Get(chs2, chunk_id), section_id[3]),
        calls |-> IF Has(chs, chunk_id) THEN <<>>
                  ELSE <<[fn |-> "read_chunk", at |-> chunk_id, from |-> "get_section"]>>]

(* Editor.get_block on an editor with caches secs and chs: the caches      *)
(* after the call and the block returned.                                  *)

\* a faulty get_block: a block buffered for the position is returned
get_block_buffered(secs, chs, dk, x, y, z) ==
    LET a == block_to_id_index(x, y, z)
        section_id == <<a[1], a[2], a[3]>>
        got == get_section(chs, dk, section_id)
        miss == section_id \notin DOMAIN secs
        secs2 == IF miss THEN (section_id :> got.section) @@ secs ELSE secs
        pending == IF Has(blocks_map, section_id)
                   THEN SelectSeq(Get(blocks_map, section_id), LAMBDA ch : ch[2] = a[4])
                   ELSE <<>>
    IN [sections |-> secs2,
        chunks |-> IF miss THEN got.chunks ELSE chs,
        block |-> IF pending # <<>> THEN pending[Len(pending)][1]
                  ELSE section_get_block(secs2[section_id], a[4]),
        calls |-> IF miss
                  THEN <<[fn |-> "get_section", at |-> section_id, from |-> "get_block"]>>
                       \o got.calls
                  ELSE <<>>]

get_block(secs, chs, dk, x, y, z) ==
    LET a == block_to_id_index(x, y, z)
        section_id == <<a[1], a[2], a[3]>>
        got == get_section(chs, dk, section_id)
        miss == section_id \notin DOMAIN secs
        secs2 == IF miss THEN (section_id :> got.section) @@ secs ELSE secs
    IN [sections |-> secs2,
        chunks |-> IF miss THEN got.chunks ELSE chs,
        block |-> section_get_block(secs2[section_id], a[4]),
        calls |-> IF miss
                  THEN <<[fn |-> "get_section", at |-> section_id, from |-> "get_block"]>>
                       \o got.calls
                  ELSE <<>>]

---------------------------------------------------------------------------
(* Editor.copy_blocks.                                                     *)

None == "None"

\* rep as passed: omitted (None) or a list of (rx, ry, rz)
NoRep == [none |-> TRUE, items |-> <<>>]

RepList(items) == [none |-> FALSE, items |-> items]

\* a faulty test `if rep is not None:` -- the empty list counts as repetitions
TruthyNotNone(rep) == ~rep.none

\* `if rep:` -- None and the empty list are both false
Truthy(rep) == ~rep.none /\ Len(rep.items) > 0

\* a faulty test: world_source is ignored and the session reads from itself
CrossWorldIgnored(c) == FALSE

\* `if world_source:`
CrossWorld(c) == c.world_source # None

\* faulty loop bounds: every extent is taken to be at least one block
OffsetsAtLeastOne(size) ==
    LET n(k) == IF size[k] < 1 THEN 1 ELSE size[k]
    IN [k \in 1 .. n(1) * n(2) * n(3) |->
           << (k - 1) \div (n(2) * n(3)),
              ((k - 1) \div n(3)) % n(2),
              (k - 1) % n(3) >>]

\* the offsets (dx, dy, dz) in the order of the three loops, dz innermost
Offsets(size) ==
    [k \in 1 .. size[1] * size[2] * size[3] |->
        << (k - 1) \div (size[2] * size[3]),
           ((k - 1) \div size[3]) % size[2],
           (k - 1) % size[3] >>]

\* for repetition in rep: self.set_block(block, tx+dx+rx, ty+dy+ry, tz+dz+rz)
RECURSIVE set_repetitions(_, _, _, _, _)
set_repetitions(bm, block, p, reps, i) ==
    IF i > Len(reps) THEN bm
    ELSE set_repetitions(
             set_block(bm, block, p[1] + reps[i][1], p[2] + reps[i][2], p[3] + reps[i][3]),
             block, p, reps, i + 1)

\* the writes buffered for one block read at offset off
copy_writes(bm, block, c, off) ==
    LET p == <<c.dest[1] + off[1], c.dest[2] + off[2], c.dest[3] + off[3]>>
    IN IF Truthy(c.rep)
       THEN set_repetitions(bm, block, p, c.rep.items, 1)
       ELSE set_block(bm, block, p[1], p[2], p[3])

\* a faulty read position: dx and dy exchanged
copy_read_at_swapped(c, off) ==
    <<c.source[1] + off[2], c.source[2] + off[1], c.source[3] + off[3]>>

\* the position read at offset off
copy_read_at(c, off) ==
    <<c.source[1] + off[1], c.source[2] + off[2], c.source[3] + off[3]>>

(* The three loops.  st holds the source editor's read caches, self's      *)
(* blocks_map and the calls made; dk is the source editor's world.         *)
RECURSIVE copy_loop(_, _, _, _, _)
copy_loop(st, c, dk, offs, k) ==
    IF k > Len(offs) THEN st
    ELSE LET p == copy_read_at(c, offs[k])
             got == get_block(st.sections, st.chunks, dk, p[1], p[2], p[3])
         IN copy_loop([sections |-> got.sections,
                       chunks |-> got.chunks,
                       blocks_map |-> copy_writes(st.blocks_map, got.block, c, offs[k]),
                       calls |-> st.calls
                           \o <<[fn |-> "get_block", at |-> p, from |-> "copy_blocks"]>>
                           \o got.calls],
                      c, dk, offs, k + 1)

\* the entity is part of the area to copy
InArea(e, c) ==
    /\ e.x >= c.source[1] /\ e.x < c.source[1] + c.size[1]
    /\ e.y >= c.source[2] /\ e.y < c.source[2] + c.size[2]
    /\ e.z >= c.source[3] /\ e.z < c.source[3] + c.size[3]

\* the entity with the shift of the copy added to its coordinates
Shifted(e, c) ==
    [e EXCEPT !.x = @ + (c.dest[1] - c.source[1]),
              !.y = @ + (c.dest[2] - c.source[2]),
              !.z = @ + (c.dest[3] - c.source[3])]

EntityKey(e) == ChunkIdOf(<<e.x, e.y, e.z>>)

\* entity["x"].value = x, ...: the entity object of the source chunk is the
\* one that gets the new coordinates
relocate(e, c) == IF InArea(e, c) THEN Shifted(e, c) ELSE e

\* the source editor's chunks after the scan
scanned_chunks(chs, c) ==
    [i \in DOMAIN chs |->
        [k |-> chs[i].k,
         v |-> [chs[i].v EXCEPT !.block_entities =
                    [j \in DOMAIN @ |-> relocate(@[j], c)]]]]

\* self.entities[key].append(entity) for the entities of one chunk, in order
RECURSIVE stage_chunk(_, _, _, _)
stage_chunk(ents, list, c, j) ==
    IF j > Len(list) THEN ents
    ELSE stage_chunk(
             IF InArea(list[j], c)
             THEN AppendTo(ents, EntityKey(Shifted(list[j], c)), Shifted(list[j], c))
             ELSE ents,
             list, c, j + 1)

\* for chunk_coord, chunk in source_world.chunks.items(): ...
RECURSIVE stage_entities(_, _, _, _)
stage_entities(ents, chs, c, i) ==
    IF i > Len(chs) THEN ents
    ELSE stage_entities(stage_chunk(ents, chs[i].v.block_entities, c, 1), chs, c, i + 1)

\* the repeated entity
Repeated(e, r) == [e EXCEPT !.x = @ + r[1], !.y = @ + r[2], !.z = @ + r[3]]

(* The repetitions of the entities.  st is [ents, key]: the new            *)
(* self.entities and the local variable key, which the innermost loop      *)
(* assigns and the middle loop reads.                                      *)
RECURSIVE rep_loop(_, _, _, _)
rep_loop(st, orig_entity, reps, i) ==
    IF i > Len(reps) THEN st
    ELSE LET entity == Repeated(orig_entity, reps[i])
             key == EntityKey(entity)
         IN rep_loop([ents |-> AppendTo(st.ents, key, entity), key |-> key],
                     orig_entity, reps, i + 1)

RECURSIVE orig_loop(_, _, _, _)
orig_loop(st, origs, reps, j) ==
    IF j > Len(origs) THEN st
    ELSE orig_loop(
             rep_loop([ents |-> AppendTo(st.ents, st.key, origs[j]), key |-> st.key],
                      origs[j], reps, 1),
             origs, reps, j + 1)

RECURSIVE item_loop(_, _, _, _)
item_loop(st, copy_entities, reps, i) ==
    IF i > Len(copy_entities) THEN st
    ELSE item_loop(
             orig_loop([ents |-> st.ents, key |-> copy_entities[i].k],
                       copy_entities[i].v, reps, 1),
             copy_entities, reps, i + 1)

\* self.entities at the end of copy_blocks, from the entities staged by the scan
repeat_entities(staged, rep) ==
    IF Truthy(rep)
    THEN item_loop([ents |-> <<>>, key |-> None], staged, rep.items, 1).ents
    ELSE staged

\* self.entities = defaultdict(list), then the scan of the source chunks
fresh_entities(old) == <<>>

\* Editor(path): the session after __init__
Editor ==
    [blocks_map |-> <<>>, sections |-> <<>>, chunks |-> <<>>,
     write_sections |-> <<>>, entities |-> <<>>]

copy_blocks(c) ==
    LET cross == CrossWorld(c)
        dk == IF cross THEN OtherDisk ELSE disk
        source == IF cross THEN Editor
                  ELSE [blocks_map |-> blocks_map, sections |-> sections,
                        chunks |-> chunks, write_sections |-> write_sections,
                        entities |-> entities]
        st0 == [sections |-> source.sections,
                chunks |-> source.chunks,
                blocks_map |-> blocks_map,
                calls |-> <<>>]
        lp == copy_loop(st0, c, dk, Offsets(c.size), 1)
        staged == stage_entities(fresh_entities(entities), lp.chunks, c, 1)
    IN [blocks_map |-> lp.blocks_map,
        sections |-> IF cross THEN sections ELSE lp.sections,
        chunks |-> IF cross THEN chunks ELSE scanned_chunks(lp.chunks, c),
        source_chunks_before |-> lp.chunks,
        source_chunks |-> scanned_chunks(lp.chunks, c),
        entities |-> repeat_entities(staged, c.rep),
        source_world |-> [source EXCEPT !.sections = lp.sections,
                                        !.chunks = scanned_chunks(lp.chunks, c)],
        calls |-> lp.calls]

---------------------------------------------------------------------------
(* Editor.done.                                                            *)

\* Region(path, region_coord).get_chunk(chunk_coord): the chunk as stored
get_chunk(dk, chunk_id) == dk[chunk_id]

\* Section.get_nbt(): the payload handed to Chunk.set_section
get_nbt(section) == section

\* Chunk.set_section(ylevel, payload)
set_section(chunk, ylevel, payload) ==
    [chunk EXCEPT !.sections = [@ EXCEPT ![ylevel] = payload]]

\* Chunk.get_bytes(entities): the encoded chunk, the entities merged in
get_bytes(chunk, entities_to_update) ==
    [chunk EXCEPT !.block_entities = @ \o entities_to_update]

\* Region.write(updated_chunks): the chunks of the map replace the stored ones
region_write(dk, region_coord, updated_chunks) ==
    [cid \in DOMAIN dk |->
        IF cid[1] = region_coord /\ Has(updated_chunks, cid[2])
        THEN Get(updated_chunks, cid[2])
        ELSE dk[cid]]

\* for update in updates: self.write_sections[section_id].set_block(*update)
RECURSIVE apply_updates(_, _, _)
apply_updates(section, updates, i) ==
    IF i > Len(updates) THEN section
    ELSE apply_updates(section_set_block(section, updates[i][1], updates[i][2]),
                       updates, i + 1)

\* a faulty grouping: every section opens an entry of its own
note_region_ungrouped(regions, section_id) ==
    Append(regions, [k |-> section_id[1], v |-> << <<section_id[2], section_id[3]>> >>])

\* regions[region_coord].append((chunk_coord, ylevel)), creating the list
note_region(regions, section_id) ==
    AppendTo(regions, section_id[1], <<section_id[2], section_id[3]>>)

(* The first loop of done, over blocks_map.items().  st is                 *)
(* [write_sections, chunks, regions, calls].                               *)
RECURSIVE update_sections(_, _, _, _)
update_sections(st, bm, dk, i) ==
    IF i > Len(bm) THEN st
    ELSE LET section_id == bm[i].k
             miss == section_id \notin DOMAIN st.write_sections
             got == get_section(st.chunks, dk, section_id)
             ws == IF miss THEN (section_id :> got.section) @@ st.write_sections
                   ELSE st.write_sections
         IN update_sections(
                [write_sections |->
                     [ws EXCEPT ![section_id] = apply_updates(@, bm[i].v, 1)],
                 chunks |-> IF miss THEN got.chunks ELSE st.chunks,
                 regions |-> note_region(st.regions, section_id),
                 calls |-> IF miss
                           THEN st.calls
                                \o <<[fn |-> "get_section", at |-> section_id,
                                      from |-> "done"]>>
                                \o got.calls
                           ELSE st.calls],
                bm, dk, i + 1)

\* the chunk indices of one region: chunk_coord -> list of ylevels
RECURSIVE chunk_indices(_, _, _)
chunk_indices(chs, chunk_id, i) ==
    IF i > Len(chunk_id) THEN chs
    ELSE chunk_indices(AppendTo(chs, chunk_id[i][1], chunk_id[i][2]), chunk_id, i + 1)

\* for ylevel in ylevels: chunk.set_section(ylevel, section.get_nbt())
RECURSIVE set_sections(_, _, _, _, _)
set_sections(chunk, ws, key, ylevels, i) ==
    IF i > Len(ylevels) THEN chunk
    ELSE set_sections(
             set_section(chunk, ylevels[i],
                         get_nbt(ws[<<key[1], key[2], ylevels[i]>>])),
             ws, key, ylevels, i + 1)

\* one modified chunk, encoded
updated_chunk(dk, ws, ents, region_coord, chunk_coord, ylevels) ==
    LET key == <<region_coord, chunk_coord>>
        entities_to_update == IF Has(ents, key) THEN Get(ents, key) ELSE <<>>
        chunk == get_chunk(dk, key)
    IN get_bytes(set_sections(chunk, ws, key, ylevels, 1), entities_to_update)

NoFail == <<"none">>

(* The chunks of one region, materialized in order up to the chunk whose   *)
(* materialization raises (fail), if it is one of them.                    *)
RECURSIVE updated_chunks(_, _, _, _, _, _, _, _)
updated_chunks(st, dk, ws, ents, region_coord, chs, fail, i) ==
    IF i > Len(chs) THEN st
    ELSE IF <<region_coord, chs[i].k>> = fail
         THEN [st EXCEPT !.err = "CommitMaterializationError"]
         ELSE updated_chunks(
                  [st EXCEPT !.map = Put(@, chs[i].k,
                       updated_chunk(dk, ws, ents, region_coord, chs[i].k, chs[i].v))],
                  dk, ws, ents, region_coord, chs, fail, i + 1)

\* a faulty end of the pass: the error of one region is dropped and the
\* remaining regions are still committed
finish_region_continue(st, region_coord, m) ==
    IF m.err # None
    THEN st
    ELSE [disk |-> region_write(st.disk, region_coord, m.map),
          writes |-> Append(st.writes, [region |-> region_coord, chunks |-> m.map]),
          err |-> None]

\* a faulty end of the pass: the chunks encoded so far are written although
\* an error was raised
finish_region_always_writes(st, region_coord, m) ==
    [disk |-> region_write(st.disk, region_coord, m.map),
     writes |-> Append(st.writes, [region |-> region_coord, chunks |-> m.map]),
     err |-> m.err]

\* the end of one region's pass: region.write(updated_chunks), which a
\* raised error never reaches
finish_region(st, region_coord, m) ==
    IF m.err # None
    THEN [st EXCEPT !.err = m.err]
    ELSE [disk |-> region_write(st.disk, region_coord, m.map),
          writes |-> Append(st.writes, [region |-> region_coord, chunks |-> m.map]),
          err |-> None]

(* The second loop of done, over regions.items().  st is                   *)
(* [disk, writes, err]; a raised error ends the call.                      *)
RECURSIVE write_regions(_, _, _, _, _, _)
write_regions(st, regions, ws, ents, fail, i) ==
    IF i > Len(regions) \/ st.err # None THEN st
    ELSE LET region_coord == regions[i].k
             chs == chunk_indices(<<>>, regions[i].v, 1)
             m == updated_chunks([map |-> <<>>, err |-> None],
                                 st.disk, ws, ents, region_coord, chs, fail, 1)
         IN write_regions(finish_region(st, region_coord, m),
                          regions, ws, ents, fail, i + 1)

done(fail) ==
    LET s1 == update_sections(
                  [write_sections |-> write_sections, chunks |-> chunks, regions |-> <<>>,
                   calls |-> <<>>],
                  blocks_map, disk, 1)
        s2 == write_regions([disk |-> disk, writes |-> <<>>, err |-> None],
                            s1.regions, s1.write_sections, entities, fail, 1)
    IN [write_sections |-> s1.write_sections,
        chunks |-> s1.chunks,
        disk |-> s2.disk,
        writes |-> s2.writes,
        err |-> s2.err,
        calls |-> s1.calls]

---------------------------------------------------------------------------
(* The session: its inputs, its initial state, its operations.             *)

\* set_block(block, x, y, z)
SetInputs ==
    { <<1, <<0, 0, 0>>>>, <<2, <<0, 0, 0>>>>,
      <<1, <<-1, 2, 1>>>>, <<2, <<2, 3, 0>>>> }

\* get_block(x, y, z)
GetInputs == { <<0, 0, 0>>, <<-1, 2, 1>>, <<-4, 0, 0>> }

\* copy_blocks(source, dest, size, rep, world_source)
Copy(source, dest, size, rep, world_source) ==
    [source |-> source, dest |-> dest, size |-> size, rep |-> rep,
     world_source |-> world_source]

CopyInputs ==
    { Copy(<<0, 0, 0>>, <<-4, 0, 0>>, <<2, 2, 1>>, NoRep, None),
      Copy(<<0, 0, 0>>, <<-4, 2, 0>>, <<2, 2, 1>>,
           RepList(<< <<2, 0, 0>>, <<4, 0, 1>> >>), None),
      Copy(<<0, 0, 0>>, <<1, 0, 0>>, <<2, 1, 1>>, NoRep, None),
      Copy(<<0, 0, 0>>, <<2, 2, 1>>, <<0, 1, 1>>, RepList(<<>>), None),
      Copy(<<0, 0, 0>>, <<-2, 0, 1>>, <<1, 1, 1>>, NoRep, "other"),
      Copy(<<0, 0, 0>>, <<-4, 0, 0>>, <<2, 2, 1>>, RepList(<<>>), None) }

\* the chunk whose materialization raises during done, if any
FailInputs == { NoFail, << <<0, 0>>, <<0, 0>> >>, << <<-1, 0>>, <<1, 0>> >> }

Init ==
    /\ blocks_map = <<>>
    /\ sections = <<>>
    /\ chunks = <<>>
    /\ write_sections = <<>>
    /\ entities = <<>>
    /\ disk = InitDisk
    /\ writes = <<>>
    /\ hist = <<>>
    /\ source_world = Editor
    /\ calls = <<>>

Called(op, arg, ret) == Append(hist, [op |-> op, arg |-> arg, ret |-> ret])

\* the calls cs, made on editor number n: 0 is self, k the Editor(world_source)
\* that the k-th operation of the session made
Logged(cs, n) ==
    calls \o [i \in 1 .. Len(cs) |->
                 [fn |-> cs[i].fn, at |-> cs[i].at, from |-> cs[i].from, editor |-> n]]

\* a faulty set_block that writes the block through to storage
SetBlockWriteThrough(block, p) ==
    /\ Len(hist) < MaxOps
    /\ blocks_map' = set_block(blocks_map, block, p[1], p[2], p[3])
    /\ disk' = [disk EXCEPT ![ChunkIdOf(p)].sections[SectionIdOf(p)[3]][IndexOf(p)] = block]
    /\ writes' = <<>>
    /\ hist' = Called("set_block", <<block, p>>, None)
    /\ UNCHANGED <<sections, chunks, write_sections, entities, source_world, calls>>

SetBlock(block, p) ==
    /\ Len(hist) < MaxOps
    /\ blocks_map' = set_block(blocks_map, block, p[1], p[2], p[3])
    /\ writes' = <<>>
    /\ hist' = Called("set_block", <<block, p>>, None)
    /\ UNCHANGED <<sections, chunks, write_sections, entities, disk, source_world, calls>>

GetBlock(p) ==
    /\ Len(hist) < MaxOps
    /\ LET got == get_block(sections, chunks, disk, p[1], p[2], p[3])
       IN /\ sections' = got.sections
          /\ chunks' = got.chunks
          /\ hist' = Called("get_block", p, got.block)
          /\ calls' = Logged(<<[fn |-> "get_block", at |-> p, from |-> "session"]>>
                             \o got.calls, 0)
    /\ writes' = <<>>
    /\ UNCHANGED <<blocks_map, write_sections, entities, disk, source_world>>

CopyBlocks(c) ==
    /\ Len(hist) < MaxOps
    /\ LET r == copy_blocks(c)
       IN /\ blocks_map' = r.blocks_map
          /\ sections' = r.sections
          /\ chunks' = r.chunks
          /\ entities' = r.entities
          /\ source_world' = IF CrossWorld(c) THEN r.source_world ELSE source_world
          /\ calls' = Logged(r.calls, IF CrossWorld(c) THEN Len(hist) + 1 ELSE 0)
    /\ writes' = <<>>
    /\ hist' = Called("copy_blocks", c, None)
    /\ UNCHANGED <<write_sections, disk>>

\* a faulty done whose write-side sections are the objects of the read
\* cache: the buffered writes show in the sections cached for reading
DoneSharingSections(fail) ==
    /\ Len(hist) < MaxOps
    /\ LET r == done(fail)
       IN /\ write_sections' = r.write_sections
          /\ chunks' = r.chunks
          /\ disk' = r.disk
          /\ writes' = r.writes
          /\ hist' = Called("done", fail, r.err)
          /\ calls' = Logged(r.calls, 0)
          /\ sections' = [sid \in DOMAIN sections |->
                             IF sid \in DOMAIN r.write_sections
                             THEN r.write_sections[sid] ELSE sections[sid]]
    /\ UNCHANGED <<blocks_map, entities, source_world>>

\* a faulty done that empties the pending-write buffer once it has committed
DoneAndReset(fail) ==
    /\ Len(hist) < MaxOps
    /\ LET r == done(fail)
       IN /\ write_sections' = r.write_sections
          /\ chunks' = r.chunks
          /\ disk' = r.disk
          /\ writes' = r.writes
          /\ hist' = Called("done", fail, r.err)
          /\ calls' = Logged(r.calls, 0)
          /\ blocks_map' = IF r.err = None THEN <<>> ELSE blocks_map
    /\ UNCHANGED <<sections, entities, source_world>>

Done(fail) ==
    /\ Len(hist) < MaxOps
    /\ LET r == done(fail)
       IN /\ write_sections' = r.write_sections
          /\ chunks' = r.chunks
          /\ disk' = r.disk
          /\ writes' = r.writes
          /\ hist' = Called("done", fail, r.err)
          /\ calls' = Logged(r.calls, 0)
    /\ UNCHANGED <<blocks_map, sections, entities, source_world>>

Next ==
    \/ \E i \in SetInputs : SetBlock(i[1], i[2])
    \/ \E p \in GetInputs : GetBlock(p)
    \/ \E c \in CopyInputs : CopyBlocks(c)
    \/ \E f \in FailInputs : Done(f)

Spec == Init /\ [][Next]_vars

---------------------------------------------------------------------------
(* What the claims speak of.                                               *)

Last == hist[Len(hist)]

\* the last operation called is op
Did(op) == Len(hist) > 0 /\ hist[Len(hist)].op = op

\* this step is a call of op
Step(op) == Len(hist') = Len(hist) + 1 /\ hist'[Len(hist')].op = op

NoDoneCalled == \A i \in DOMAIN hist : hist[i].op # "done"

NoCopyCalled == \A i \in DOMAIN hist : hist[i].op # "copy_blocks"

\* the calls that buffer writes
Buffering == {i \in DOMAIN hist : hist[i].op \in {"set_block", "copy_blocks"}}

Plus(p, q) == <<p[1] + q[1], p[2] + q[2], p[3] + q[3]>>

\* the positions of the cuboid of the given size at corner
Cuboid(corner, size) == {Plus(corner, Offsets(size)[k]) : k \in DOMAIN Offsets(size)}

\* the set_block calls that target position p
SetsAt(p) == {i \in DOMAIN hist : hist[i].op = "set_block" /\ hist[i].arg[2] = p}

\* the last of a non-empty set of calls
Latest(S) == CHOOSE i \in S : \A j \in S : j <= i

---------------------------------------------------------------------------
\* C1: read-after-write isolation: before any done(), get_block(x, y, z)
\* returns the value storage holds at (x, y, z), whatever set_block and
\* copy_blocks have buffered.
C1_ReadAfterWriteIsolation ==
    (Did("get_block") /\ NoDoneCalled) => Last.ret = BlockAt(disk, Last.arg)

\* a block was buffered at a position and get_block there returned the stored one
C1_Witness ==
    /\ Did("get_block") /\ NoDoneCalled
    /\ \E i \in SetsAt(Last.arg) : hist[i].arg[1] # Last.ret
    /\ Last.ret = BlockAt(InitDisk, Last.arg)

\* C2: storage is written only by commit: a step that calls Region.write or
\* changes the stored world is a call of done().
C2_OnlyDoneWrites ==
    [][(writes' # <<>> \/ disk' # disk) => Step("done")]_vars

\* done() wrote storage after writes were buffered and read
C2_Witness ==
    /\ Did("done") /\ writes # <<>> /\ disk # InitDisk
    /\ Buffering # {}

\* the regions and the chunks that have pending writes
PendingRegions == {sid[1] : sid \in Keys(blocks_map)}

PendingChunks(region_coord) ==
    {sid[2] : sid \in {t \in Keys(blocks_map) : t[1] = region_coord}}

PendingLevels(region_coord, chunk_coord) ==
    {sid[3] : sid \in {t \in Keys(blocks_map) :
                           t[1] = region_coord /\ t[2] = chunk_coord}}

\* C3: one write per touched region: a done() that completes calls
\* Region.write exactly once for every region with a pending write and for no
\* other region, with a map of exactly that region's chunks with pending
\* writes, each fully encoded (every touched level from its write-side section).
C3_OneWritePerRegion ==
    (Did("done") /\ Last.ret = None) =>
        /\ \A i, j \in DOMAIN writes :
               writes[i].region = writes[j].region => i = j
        /\ {writes[i].region : i \in DOMAIN writes} = PendingRegions
        /\ \A i \in DOMAIN writes :
               /\ Keys(writes[i].chunks) = PendingChunks(writes[i].region)
               /\ \A cc \in Keys(writes[i].chunks) :
                      \A yl \in PendingLevels(writes[i].region, cc) :
                          Get(writes[i].chunks, cc).sections[yl]
                              = write_sections[<<writes[i].region, cc, yl>>]

\* a completed done() with two regions touched, one of them in two sections
C3_Witness ==
    /\ Did("done") /\ Last.ret = None
    /\ Cardinality(PendingRegions) >= 2
    /\ \E s, t \in Keys(blocks_map) : s # t /\ s[1] = t[1]
    /\ Len(writes) = 2

\* C4: insertion order, last write wins: after set_block calls and a done()
\* that completes, every position set at least once holds the block of the
\* last set_block that targeted it, and every other position holds its stored
\* value.
C4_LastWriteWins ==
    (Did("done") /\ Last.ret = None /\ NoCopyCalled) =>
        \A p \in World :
            BlockAt(disk, p) =
                IF SetsAt(p) # {} THEN hist[Latest(SetsAt(p))].arg[1]
                ELSE BlockAt(InitDisk, p)

\* two different blocks were set at one position and the second is persisted
C4_Witness ==
    /\ Did("done") /\ Last.ret = None /\ NoCopyCalled
    /\ \E p \in World : \E i, j \in SetsAt(p) :
           /\ i < j /\ hist[i].arg[1] # hist[j].arg[1]
           /\ BlockAt(disk, p) = hist[j].arg[1]

\* the world a copy reads, as stored when the session began
SourceWorld(c) == IF CrossWorld(c) THEN OtherDisk ELSE InitDisk

\* source and destination cuboid share no position of one world
DisjointCopy(c) ==
    CrossWorld(c) \/ Cuboid(c.source, c.size) \cap Cuboid(c.dest, c.size) = {}

\* C5: copy correctness: when the session's only buffered writes are those of
\* one copy_blocks without repetitions whose cuboids are disjoint, after a
\* done() that completes every dest+offset holds what the source stored at
\* source+offset, and the source cuboid holds what it stored.
C5_CopyCorrect ==
    (Did("done") /\ Last.ret = None /\ Cardinality(Buffering) = 1) =>
        \A i \in Buffering :
            LET c == hist[i].arg
            IN (hist[i].op = "copy_blocks" /\ ~Truthy(c.rep) /\ DisjointCopy(c)) =>
                   \A k \in DOMAIN Offsets(c.size) :
                       LET off == Offsets(c.size)[k]
                       IN /\ BlockAt(disk, Plus(c.dest, off))
                                 = BlockAt(SourceWorld(c), Plus(c.source, off))
                          /\ ~CrossWorld(c) =>
                                 BlockAt(disk, Plus(c.source, off))
                                     = BlockAt(InitDisk, Plus(c.source, off))

\* a copy of several blocks was committed and its destination changed
C5_Witness ==
    /\ Did("done") /\ Last.ret = None /\ Cardinality(Buffering) = 1
    /\ \E i \in Buffering :
           /\ hist[i].op = "copy_blocks" /\ ~Truthy(hist[i].arg.rep)
           /\ ~CrossWorld(hist[i].arg) /\ DisjointCopy(hist[i].arg)
           /\ Len(Offsets(hist[i].arg.size)) > 1
           /\ \A p \in Cuboid(hist[i].arg.dest, hist[i].arg.size) :
                  BlockAt(disk, p) # BlockAt(InitDisk, p)

\* the buffered changes, as (entry, place in its list)
Changes == UNION {{<<i, j>> : j \in DOMAIN blocks_map[i].v} : i \in DOMAIN blocks_map}

\* a write of block blk at position p is buffered
Buffered(blk, p) ==
    \E ch \in Changes :
        /\ blocks_map[ch[1]].k = SectionIdOf(p)
        /\ blocks_map[ch[1]].v[ch[2]] = <<blk, IndexOf(p)>>

\* the list rep stands for
RepItems(rep) == IF rep.none THEN <<>> ELSE rep.items

\* C6: repetition fan-out of blocks: a copy_blocks with a non-empty
\* repetitions list buffers, for every offset, the source block at dest+offset
\* and at dest+offset+r for every r, 1 + |repetitions| writes per voxel.
C6_BlockFanOut ==
    (Did("copy_blocks") /\ Truthy(Last.arg.rep) /\ Cardinality(Buffering) = 1) =>
        LET c == Last.arg
            offs == Offsets(c.size)
        IN /\ \A k \in DOMAIN offs :
                  LET blk == BlockAt(SourceWorld(c), Plus(c.source, offs[k]))
                      base == Plus(c.dest, offs[k])
                  IN /\ Buffered(blk, base)
                     /\ \A r \in DOMAIN c.rep.items :
                            Buffered(blk, Plus(base, c.rep.items[r]))
           /\ Cardinality(Changes) = (1 + Len(c.rep.items)) * Len(offs)

\* C7: copy never mutates source metadata: over a copy_blocks call within one
\* world, every block entity of a chunk of the chunk cache keeps the position
\* it had before the call (as cached, or as stored when the call reads the
\* chunk).
C7_SourceMetadataKept ==
    [][(Step("copy_blocks") /\ ~CrossWorld(hist'[Len(hist')].arg)) =>
           \A i \in DOMAIN chunks' :
               chunks'[i].v.block_entities =
                   IF Has(chunks, chunks'[i].k)
                   THEN Get(chunks, chunks'[i].k).block_entities
                   ELSE disk[chunks'[i].k].block_entities]_vars

\* the staged records, as (entry, place in its list)
Staged(ents) == UNION {{<<i, j>> : j \in DOMAIN ents[i].v} : i \in DOMAIN ents}

\* C8: staged metadata is retained until commit: over any call other than
\* done(), every record staged under a key stays staged under that key.
C8_StagedRetained ==
    [][(Len(hist') = Len(hist) + 1 /\ hist'[Len(hist')].op # "done") =>
           \A s \in Staged(entities) :
               \E t \in Staged(entities') :
                   /\ entities'[t[1]].k = entities[s[1]].k
                   /\ entities'[t[1]].v[t[2]] = entities[s[1]].v[s[2]]]_vars

\* the block entities a world stores
StoredEntities(dk) ==
    UNION {{dk[cid].block_entities[j] : j \in DOMAIN dk[cid].block_entities} :
               cid \in DOMAIN dk}

\* how many staged records have the given id and position
StagedAt(id, q) ==
    Cardinality({s \in Staged(entities) :
                     LET e == entities[s[1]].v[s[2]]
                     IN e.id = id /\ <<e.x, e.y, e.z>> = q})

\* the positions of the staged records with the given id
StagedPositions(id) ==
    {<<entities[s[1]].v[s[2]].x, entities[s[1]].v[s[2]].y, entities[s[1]].v[s[2]].z>> :
         s \in {t \in Staged(entities) : entities[t[1]].v[t[2]].id = id}}

\* C9: repetition fan-out of metadata: after copy_blocks with repetitions R,
\* every record the source world stores inside the source cuboid is staged
\* 1 + |R| times: once at its position plus the shift and once more at that
\* position plus r for every r of R, and nowhere else.
C9_MetadataFanOut ==
    (Did("copy_blocks") /\ NoDoneCalled) =>
        LET c == Last.arg
            R == RepItems(c.rep)
        IN \A e \in StoredEntities(SourceWorld(c)) :
               InArea(e, c) =>
                   LET p0 == Plus(<<e.x, e.y, e.z>>,
                                  <<c.dest[1] - c.source[1], c.dest[2] - c.source[2],
                                    c.dest[3] - c.source[3]>>)
                       expected(q) ==
                           (IF q = p0 THEN 1 ELSE 0)
                               + Cardinality({r \in DOMAIN R : Plus(p0, R[r]) = q})
                   IN \A q \in {p0} \cup {Plus(p0, R[r]) : r \in DOMAIN R}
                                    \cup StagedPositions(e.id) :
                          StagedAt(e.id, q) = expected(q)

\* the chunks that have pending writes
TouchedChunks == {<<sid[1], sid[2]>> : sid \in Keys(blocks_map)}

\* C10: no partial persistence on commit failure: when materializing a
\* touched chunk of region R fails during done(), the call raises the error,
\* Region.write is not called for R and R's stored chunks stay as they were,
\* and every region written before holds the content written.
C10_NoPartialPersistence ==
    [][(Step("done") /\ hist'[Len(hist')].arg \in TouchedChunks) =>
           LET R == hist'[Len(hist')].arg[1]
           IN /\ hist'[Len(hist')].ret = "CommitMaterializationError"
              /\ \A i \in DOMAIN writes' : writes'[i].region # R
              /\ \A cid \in DOMAIN disk : cid[1] = R => disk'[cid] = disk[cid]
              /\ \A i \in DOMAIN writes' :
                     \A cc \in Keys(writes'[i].chunks) :
                         disk'[<<writes'[i].region, cc>>] = Get(writes'[i].chunks, cc)]_vars

\* a done() failed in one region after another region had been written
C10_Witness ==
    /\ Did("done") /\ Last.arg \in TouchedChunks
    /\ Last.ret = "CommitMaterializationError"
    /\ Len(writes) = 1 /\ writes[1].region # Last.arg[1]
    /\ disk # InitDisk
    /\ \E sid \in Keys(blocks_map) : sid[1] = Last.arg[1] /\ sid[1] # writes[1].region

---------------------------------------------------------------------------
\* the place of region r in the order done() processes the regions: the
\* place of its first section in blocks_map
FirstAt(r) ==
    CHOOSE i \in DOMAIN blocks_map :
        /\ blocks_map[i].k[1] = r
        /\ \A j \in 1 .. i - 1 : blocks_map[j].k[1] # r

\* the regions that the last done() wrote
WrittenRegions == {writes[i].region : i \in DOMAIN writes}

\* C11: a commit materialization failure ends the whole done() call: when
\* materializing a chunk of region R fails, the call raises, the regions
\* processed before R are the ones written, and neither R nor any region
\* after R is written.
C11_FailureEndsCommit ==
    (Did("done") /\ Last.arg \in TouchedChunks) =>
        LET R == Last.arg[1]
        IN /\ Last.ret = "CommitMaterializationError"
           /\ WrittenRegions = {r \in PendingRegions : FirstAt(r) < FirstAt(R)}

\* C11 as stated: a failure in region R leaves every other region with
\* pending writes written by the same done() call.
C11_OtherRegionsWritten ==
    (Did("done") /\ Last.arg \in TouchedChunks) =>
        \A r \in PendingRegions \ {Last.arg[1]} : r \in WrittenRegions

\* a done() failed in the first region it processed and another region had
\* pending writes
C11_Witness ==
    /\ Did("done") /\ Last.arg \in TouchedChunks
    /\ \E r \in PendingRegions : FirstAt(Last.arg[1]) < FirstAt(r)
    /\ writes = <<>>
    /\ disk = InitDisk

---------------------------------------------------------------------------
\* this step is a done() that completes, right after a done() that completed
SecondDone ==
    /\ Did("done") /\ Last.ret = None
    /\ Step("done") /\ hist'[Len(hist')].ret = None

\* C12: commit idempotence: a second done() in a row, with no set_block or
\* copy_blocks in between, passes the same region -> {chunk -> bytes} maps
\* to Region.write and leaves storage as the first done() left it.
C12_CommitIdempotent ==
    [][SecondDone => (writes' = writes /\ disk' = disk)]_vars

---------------------------------------------------------------------------
\* the last operation is a copy_blocks called with a world_source
DidCrossCopy == Did("copy_blocks") /\ Last.arg.world_source # None

---------------------------------------------------------------------------
ZeroExtent(size) == \E k \in 1 .. 3 : size[k] = 0

\* the copies of CopyInputs, one extent set to zero
ZeroCopies ==
    {c \in CopyInputs : ZeroExtent(c.size)}
        \cup {[c EXCEPT !.size[k] = 0] : c \in CopyInputs, k \in 1 .. 3}

\* C14: a zero-extent copy is a no-op for reads, writes and relocation: in
\* every state of a session, copy_blocks with a size that has a zero
\* component calls neither get_block nor Region.read_chunk, leaves the read
\* caches as they are, appends nothing to the pending-write buffer and
\* stages no metadata record.
C14_ZeroExtentNoOp ==
    \A c \in ZeroCopies :
        LET r == copy_blocks(c)
        IN /\ r.calls = <<>>
           /\ r.blocks_map = blocks_map
           /\ r.sections = sections
           /\ r.chunks = chunks
           /\ Staged(r.entities) = {}

\* a zero-extent copy has been called in a session that had chunks with
\* metadata records in its cache and writes pending, and changed none of it
C14_Witness ==
    /\ Len(hist) >= 2
    /\ Did("copy_blocks") /\ ZeroExtent(Last.arg.size)
    /\ hist[Len(hist) - 1].op = "copy_blocks"
    /\ ~ZeroExtent(hist[Len(hist) - 1].arg.size)
    /\ \E i \in DOMAIN chunks : chunks[i].v.block_entities # <<>>
    /\ blocks_map # <<>>
    /\ calls # <<>>
    /\ Staged(entities) = {}

---------------------------------------------------------------------------
\* C15: commit does not reset the session: over a done() call the
\* pending-write buffer, the staged metadata and the read-section cache stay
\* as they were, and the read-chunk cache keeps every entry it had, in place
\* and unchanged, and may gain the chunks that done() read.
C15_CommitKeepsSession ==
    [][Step("done") =>
           /\ blocks_map' = blocks_map
           /\ entities' = entities
           /\ sections' = sections
           /\ Len(chunks') >= Len(chunks)
           /\ \A i \in DOMAIN chunks : chunks'[i] = chunks[i]
           /\ \A i \in DOMAIN chunks' \ DOMAIN chunks :
                  \E j \in DOMAIN calls' \ DOMAIN calls :
                      /\ calls'[j].fn = "read_chunk"
                      /\ calls'[j].at = chunks'[i].k]_vars

\* a done() returned in a session with pending writes, staged metadata and
\* cached sections, and read a chunk that was not cached before
C15_Witness ==
    /\ Did("done") /\ Last.ret = None
    /\ writes # <<>>
    /\ blocks_map # <<>>
    /\ Staged(entities) # {}
    /\ sections # <<>>
    /\ \E j \in DOMAIN calls :
           /\ calls[j].fn = "read_chunk"
           /\ \E i \in 1 .. j - 1 : calls[i].from = "done"

---------------------------------------------------------------------------
\* C16: staged metadata is keyed by its own destination chunk: every record
\* of self.entities is staged under the (region, chunk) of the record's
\* current x, y, z.
C16_StagedUnderOwnKey ==
    \A i \in DOMAIN entities :
        \A j \in DOMAIN entities[i].v :
            EntityKey(entities[i].v[j]) = entities[i].k

---------------------------------------------------------------------------
\* the records of a stored or encoded chunk
RecordsOf(chunk) == {chunk.block_entities[j] : j \in DOMAIN chunk.block_entities}

\* the last two operations are a copy_blocks and a done() that completed
CopyThenDone ==
    /\ Len(hist) >= 2
    /\ hist[Len(hist) - 1].op = "copy_blocks"
    /\ Did("done") /\ Last.ret = None

\* C17: every staged metadata record is persisted by commit: after a
\* copy_blocks followed by a done() that completes, for every key of
\* self.entities the chunk of that key is in the map written for its region
\* and holds every record staged under the key.
C17_StagedPersisted ==
    CopyThenDone =>
        \A i \in DOMAIN entities :
            entities[i].v # <<>> =>
                \E w \in DOMAIN writes :
                    /\ writes[w].region = entities[i].k[1]
                    /\ Has(writes[w].chunks, entities[i].k[2])
                    /\ \A j \in DOMAIN entities[i].v :
                           entities[i].v[j]
                               \in RecordsOf(Get(writes[w].chunks, entities[i].k[2]))

---------------------------------------------------------------------------
---------------------------------------------------------------------------
\* the calls of fn made from the function from
CallsOf(fn, from) ==
    {i \in DOMAIN calls : calls[i].fn = fn /\ calls[i].from = from}

\* the world an editor works on: self on the session's world, every
\* Editor(world_source) on the other one
WorldOf(n) == IF n = 0 THEN "session" ELSE "other"

\* no two calls of S have the same argument on the same Editor instance
OncePerEditor(S) ==
    \A i, j \in S :
        (i < j /\ calls[i].editor = calls[j].editor) => calls[i].at # calls[j].at

\* no two calls of S have the same argument on the same world
OncePerWorld(S) ==
    \A i, j \in S :
        (i < j /\ WorldOf(calls[i].editor) = WorldOf(calls[j].editor))
            => calls[i].at # calls[j].at

\* C19: chunk read-through cache, per Editor instance: across any sequence
\* of get_block, copy_blocks and done() calls, every Editor (the session,
\* and the Editor(world_source) that each cross-world copy makes for itself)
\* invokes Region.read_chunk at most once per (region_id, chunk_id) and
\* get_section at most once per section address from get_block and at most
\* once per section address from done().
C19_ReadOncePerEditor ==
    /\ OncePerEditor(CallsOf("read_chunk", "get_section"))
    /\ OncePerEditor(CallsOf("get_section", "get_block"))
    /\ OncePerEditor(CallsOf("get_section", "done"))

\* C19 as stated: over the calls of one session, Region.read_chunk is
\* invoked at most once per (region_id, chunk_id) of a world, and
\* get_section at most once per section address from get_block and at most
\* once from done().
C19_ReadOncePerSession ==
    /\ OncePerWorld(CallsOf("read_chunk", "get_section"))
    /\ OncePerWorld(CallsOf("get_section", "get_block"))
    /\ OncePerWorld(CallsOf("get_section", "done"))

\* the session asked twice for a section of one chunk, once from get_block
\* and once from done(), and read the chunk once
C19_Witness ==
    \E i \in CallsOf("get_section", "get_block") :
        \E j \in CallsOf("get_section", "done") :
            /\ calls[i].editor = 0 /\ calls[j].editor = 0
            /\ calls[i].at = calls[j].at
            /\ Cardinality({k \in CallsOf("read_chunk", "get_section") :
                               /\ calls[k].editor = 0
                               /\ calls[k].at = <<calls[i].at[1], calls[i].at[2]>>}) = 1

---------------------------------------------------------------------------
\* C20: empty repetitions equal no repetitions: in every state of a
\* session, copy_blocks with rep=[] and the same copy_blocks with rep
\* omitted give the same pending-write buffer, the same staged metadata and
\* the same caches, of the session and of the source session, and make the
\* same calls.
C20_EmptyRepIsNoRep ==
    \A c \in CopyInputs :
        LET empty == copy_blocks([c EXCEPT !.rep = RepList(<<>>)])
            omitted == copy_blocks([c EXCEPT !.rep = NoRep])
        IN /\ empty.blocks_map = omitted.blocks_map
           /\ empty.entities = omitted.entities
           /\ empty.sections = omitted.sections
           /\ empty.chunks = omitted.chunks
           /\ empty.source_world = omitted.source_world
           /\ empty.calls = omitted.calls

\* a copy_blocks with rep=[] over a non-empty cuboid has buffered the base
\* copy and staged the records of the area
C20_Witness ==
    /\ Did("copy_blocks")
    /\ Last.arg.rep = RepList(<<>>)
    /\ ~ZeroExtent(Last.arg.size)
    /\ \A p \in Cuboid(Last.arg.dest, Last.arg.size) :
           Has(blocks_map, SectionIdOf(p))
    /\ Staged(entities) # {}

====
